---- MODULE Spec2Model ----
(***************************************************************************)
(* A model of GitDiffTracker (codex-rs/core/src/git_diff_tracker.rs): the  *)
(* session-scoped working-tree change tracker, together with the part of   *)
(* its environment that it observes (the git tool, the repository, the     *)
(* working tree, linked worktrees and the file system's timestamps).       *)
(*                                                                         *)
(* Text is modelled as a sequence of atoms.  An atom is a string; the      *)
(* whitespace atoms are " ", "\n", "\r" and "\t", every other atom stands  *)
(* for a run of non-whitespace-delimited characters (a letter of a file, a *)
(* fixed piece of a header line, a file name, a number in decimal).        *)
(***************************************************************************)
EXTENDS Integers, Sequences, FiniteSets, TLC

VARIABLES
    \* ---- the tracker (struct GitDiffTracker) ----
    constructed,         \* FALSE until GitDiffTracker::new has run
    enabled,             \* field enabled
    initial_git_hash,    \* field initial_git_hash : Option<String>
    session_start_time,  \* field session_start_time : SystemTime
    last_diff_hash,      \* field last_diff_hash : Option<String>
    \* ---- the environment ----
    now,                 \* the last reading of the wall clock
    gitUp,               \* the git executable can be launched
    isRepo,              \* the working directory is inside a git repository
    commits,             \* the commits on HEAD, oldest first: the tracked file's content in each
    workVer,             \* the tracked file's content in the working tree
    files,               \* the untracked files of the working directory
    worktrees,           \* the linked worktrees of the repository
    birthAvail,          \* the platform reports a file's creation time
    fault,               \* how each git command fails now, if it does
    \* ---- observation of the calls (history variables) ----
    obs,                 \* the last call of get_diff / get_diff_if_changed and what it did
    lastReturned,        \* the text get_diff_if_changed returned last, if any
    since,               \* what happened since the last call of get_diff_if_changed
    atNew,               \* what GitDiffTracker::new was asked and what it left
    \* ---- the bridge (struct OmnaraBridge) and its tasks ----
    pending,             \* field pending : VecDeque<(String, ApprovalKind)>
    last_agent_send_handle,  \* field last_agent_send_handle : Option<JoinHandle<()>>
    tasks,               \* the tasks spawned on the runtime, in the order of their spawning
    polling,             \* the client polls, with the callback of start_polling_impl
    \* ---- observation of the bridge (history variables) ----
    pushed,              \* the approval requests whose entry was put in the queue
    lastAgentTask,       \* the task of the most recent on_agent_message, if any
    bobs                 \* the last step of the bridge and what it did

vars == << constructed, enabled, initial_git_hash, session_start_time, last_diff_hash,
           now, gitUp, isRepo, commits, workVer, files, worktrees, birthAvail,
           fault, obs, lastReturned, since, atNew,
           pending, last_agent_send_handle, tasks, polling,
           pushed, lastAgentTask, bobs >>

trackerVars == << constructed, enabled, initial_git_hash, session_start_time, last_diff_hash >>
envVars == << now, gitUp, isRepo, commits, workVer, files, worktrees, birthAvail,
             fault >>
diffVars == << trackerVars, envVars, obs, lastReturned, since, atNew >>
bridgeVars == << pending, last_agent_send_handle, tasks, polling,
                pushed, lastAgentTask, bobs >>

-----------------------------------------------------------------------------
(* Bounds of the model. *)

\* The times the clock is seen to advance, besides at construction.
MaxTime == 2
\* The number of commits made on HEAD.
MaxCommits == 2
\* The length of a new file's content, in atoms, where every content is tried.
MaxLen == 3
\* The tasks the bridge spawns in a session.
MaxTasks == 3
\* The tasks there may be in a session for an approval to be asked for still.
MaxRequests == 2

-----------------------------------------------------------------------------
(* Option<T> and io::Result<String>. *)

None == [tag |-> "None"]
Some(v) == [tag |-> "Some", v |-> v]

Err == [ok |-> FALSE]
Ok(out) == [ok |-> TRUE, out |-> out]

-----------------------------------------------------------------------------
(* Text. *)

NL == "\n"
CR == "\r"

IsWhitespace(c) == c \in {" ", NL, CR, "\t"}

RECURSIVE TrimStart(_)
TrimStart(s) ==
    IF s = << >> THEN << >>
    ELSE IF IsWhitespace(Head(s)) THEN TrimStart(Tail(s))
    ELSE s

RECURSIVE TrimEnd(_)
TrimEnd(s) ==
    IF s = << >> THEN << >>
    ELSE IF IsWhitespace(s[Len(s)]) THEN TrimEnd(SubSeq(s, 1, Len(s) - 1))
    ELSE s

\* str::trim
Trim(s) == TrimEnd(TrimStart(s))

\* str::ends_with('\n')
EndsWithNewline(s) == s # << >> /\ s[Len(s)] = NL

\* A line that ended in "\n": the "\r" of a "\r\n" ending is dropped with it.
StripCR(line) ==
    IF line # << >> /\ line[Len(line)] = CR THEN SubSeq(line, 1, Len(line) - 1) ELSE line

\* The position of the first "\n" of s at or after i, or 0.
RECURSIVE FirstNL(_, _)
FirstNL(s, i) ==
    IF i > Len(s) THEN 0
    ELSE IF s[i] = NL THEN i
    ELSE FirstNL(s, i + 1)

\* str::lines: the lines of s, without their endings ("\n" or "\r\n"); a final
\* line needs no ending (a "\r" at its end then stays), and an ending at the end
\* of s starts no further line.
RECURSIVE Lines(_)
Lines(s) ==
    IF s = << >> THEN << >>
    ELSE LET k == FirstNL(s, 1) IN
         IF k = 0 THEN << s >>
         ELSE << StripCR(SubSeq(s, 1, k - 1)) >> \o Lines(SubSeq(s, k + 1, Len(s)))

\* format!("{:x}", Sha1::digest(text)): the digest of a text, a value of its own
\* kind that two texts share only if they are equal.
Sha1Hex(text) == << "sha1", text >>

-----------------------------------------------------------------------------
(* Paths.  A path is the sequence of its components, "/" first when it is  *)
(* absolute (std::path::Components); its text has "/" between components. *)

\* PathBuf::from(text): the components of a path written as text.
RECURSIVE Components(_)
Components(text) ==
    IF text = << >> THEN << >>
    ELSE IF Head(text) = "/" THEN Components(Tail(text))
    ELSE << Head(text) >> \o Components(Tail(text))

PathFrom(text) ==
    IF text # << >> /\ Head(text) = "/" THEN << "/" >> \o Components(text)
    ELSE Components(text)

\* The components of a relative path, "/" between them (Path::to_string_lossy).
RECURSIVE JoinComponents(_)
JoinComponents(p) ==
    IF p = << >> THEN << >>
    ELSE IF Len(p) = 1 THEN p
    ELSE << Head(p), "/" >> \o JoinComponents(Tail(p))

\* The text of an absolute path.
PathText(p) == << "/" >> \o JoinComponents(Tail(p))

\* Path::starts_with, by whole components.
IsPrefix(base, p) == Len(base) <= Len(p) /\ SubSeq(p, 1, Len(base)) = base

\* Path::strip_prefix
StripPrefix(p, base) ==
    IF IsPrefix(base, p) THEN Ok(SubSeq(p, Len(base) + 1, Len(p))) ELSE Err

\* Path::join of a relative path written as text
PathJoin(base, relText) == base \o Components(relText)

-----------------------------------------------------------------------------
(* The file system and the repository. *)

\* The tracker's directory (field cwd), the main worktree of the repository.
Cwd == << "/", "r" >>

\* The places a linked worktree of the repository is added at: two inside the
\* tracker's directory, one of them two levels down, and one beside it.
WtInside == << "/", "r", "w" >>
WtNested == << "/", "r", "d", "v" >>
WtOutside == << "/", "o" >>
LinkedPaths == { WtInside, WtNested, WtOutside }

\* A linked worktree that is not there; one that is there has the time it was added at.
Absent == -1

\* The names of the untracked files of the tracker's directory, in git's order.
FileOrder == << "n1", "n2" >>
FileNames == { FileOrder[i] : i \in 1..Len(FileOrder) }

NoFile == [kind |-> "absent"]

\* The contents of a text file: every text of at most MaxLen atoms.
Alphabet == { "a", NL, CR }
RECURSIVE TextsOfLen(_)
TextsOfLen(n) ==
    IF n = 0 THEN { << >> }
    ELSE { << c >> \o t : c \in Alphabet, t \in TextsOfLen(n - 1) }
AllContents == UNION { TextsOfLen(n) : n \in 0..MaxLen }

\* A few of them: a line without its newline, a line, the empty file.
SomeContents == { << "a" >>, << "a", NL >>, << >> }

\* The contents of the tracked file t: as first committed, and edited.
TrackedContents == { 0, 1 }

\* "text": readable UTF-8; "binary": read_to_string fails; "nostat": fs::metadata
\* fails (a dangling symbolic link, a directory that cannot be searched).
FileKinds == { "text", "binary", "nostat" }

\* The names of the commits: `git rev-parse` prints one on a line of its own.
HashAtom(k) == "c" \o ToString(k)
HeadCommit == Len(commits)

\* The commit a revision argument names, or 0.
Resolve(rev) ==
    IF rev = << "HEAD" >> THEN HeadCommit
    ELSE IF \E k \in 1..Len(commits) : rev = << HashAtom(k) >>
         THEN CHOOSE k \in 1..Len(commits) : rev = << HashAtom(k) >>
         ELSE 0

\* A content of the tracked file that is text, but not UTF-8: one byte 0xFF.
Latin1Content == 2
BadByte == "<FF>"

\* One line of the tracked file's diff: git prints the content's bytes as they are.
TrackedLine(sign, v) ==
    IF v = Latin1Content THEN << sign, BadByte, NL >> ELSE << sign \o ToString(v), NL >>

\* `git diff <commit>` of the tracked file t: the working tree against the commit.
TrackedDiff(from, to) ==
    IF from = to THEN << >>
    ELSE << "diff --git a/t b/t", NL, "@@ -1 +1 @@", NL >>
         \o TrackedLine("-", from) \o TrackedLine("+", to)

\* The arguments after "--": the pathspecs of an invocation.
RECURSIVE AfterDashDash(_)
AfterDashDash(args) ==
    IF args = << >> THEN << >>
    ELSE IF Head(args) = << "--" >> THEN Tail(args)
    ELSE AfterDashDash(Tail(args))

\* Whether a pathspec excludes the path p, relative to the working directory.
Excludes(spec, p) ==
    /\ spec # << >>
    /\ Head(spec) = ":(exclude)"
    /\ Components(Tail(spec)) # << >>
    /\ IsPrefix(Components(Tail(spec)), p)

Excluded(args, p) ==
    \E i \in 1..Len(AfterDashDash(args)) : Excludes(AfterDashDash(args)[i], p)

\* `git ls-files --others --exclude-standard`: the untracked files, one on a line,
\* sorted; a linked worktree inside the directory is a directory entry, "d/v/"
\* or "w/".
RECURSIVE UntrackedListing(_, _)
UntrackedListing(args, i) ==
    IF i = 0
    THEN (IF worktrees[WtNested] # Absent /\ ~Excluded(args, << "d", "v" >>)
          THEN << "d", "/", "v", "/", NL >> ELSE << >>)
         \o UntrackedListing(args, 1)
    ELSE IF i > Len(FileOrder)
    THEN IF worktrees[WtInside] # Absent /\ ~Excluded(args, << "w" >>)
         THEN << "w", "/", NL >> ELSE << >>
    ELSE (IF files[FileOrder[i]] # NoFile /\ ~Excluded(args, << FileOrder[i] >>)
          THEN << FileOrder[i], NL >> ELSE << >>)
         \o UntrackedListing(args, i + 1)

\* `git worktree list --porcelain`: a stanza for the main worktree, then one for
\* each linked worktree.
WorktreeStanza(p) ==
    << "worktree " >> \o PathText(p) \o << NL, "HEAD " \o HashAtom(HeadCommit), NL, NL >>

WorktreeListing ==
    WorktreeStanza(Cwd)
    \o (IF worktrees[WtInside] # Absent THEN WorktreeStanza(WtInside) ELSE << >>)
    \o (IF worktrees[WtNested] # Absent THEN WorktreeStanza(WtNested) ELSE << >>)
    \o (IF worktrees[WtOutside] # Absent THEN WorktreeStanza(WtOutside) ELSE << >>)

\* The git commands the tracker runs, and the ways one fails: "launch", the
\* process cannot be started or waited for; "exit", it ends with a non-zero status.
Commands == { "rev-parse", "diff", "worktree", "ls-files" }
FaultModes == { "launch", "exit" }
NoFault == [c \in Commands |-> "none"]
CommandOf(args) == Head(args)[1]

\* The git tool: its exit status and what it prints for an argument list.
GitFails == [success |-> FALSE, stdout |-> << >>]
GitPrints(text) == [success |-> TRUE, stdout |-> text]

Git(args) ==
    IF ~isRepo \/ fault[CommandOf(args)] = "exit" THEN GitFails
    ELSE IF Head(args) = << "rev-parse" >>
         THEN IF Resolve(args[2]) = 0 THEN GitFails
              ELSE GitPrints(<< HashAtom(Resolve(args[2])), NL >>)
    ELSE IF Head(args) = << "diff" >>
         THEN IF Resolve(args[2]) = 0 THEN GitFails
              ELSE GitPrints(TrackedDiff(commits[Resolve(args[2])], workVer))
    ELSE IF Head(args) = << "worktree" >> THEN GitPrints(WorktreeListing)
    ELSE IF Head(args) = << "ls-files" >> THEN GitPrints(UntrackedListing(args, 0))
    ELSE GitFails

\* fs::metadata(abs).and_then(|m| m.created().or_else(|_| m.modified()))
FileTime(abs) ==
    IF abs \in { WtInside, WtNested } /\ worktrees[abs] # Absent THEN Ok(worktrees[abs])
    ELSE IF /\ Len(abs) = Len(Cwd) + 1
            /\ IsPrefix(Cwd, abs)
            /\ abs[Len(abs)] \in FileNames
            /\ files[abs[Len(abs)]].kind \in { "text", "binary" }
         THEN IF birthAvail THEN Ok(files[abs[Len(abs)]].created)
              ELSE Ok(files[abs[Len(abs)]].modified)
    ELSE Err

\* fs::read_to_string(abs)
ReadToString(abs) ==
    IF /\ Len(abs) = Len(Cwd) + 1
       /\ IsPrefix(Cwd, abs)
       /\ abs[Len(abs)] \in FileNames
       /\ files[abs[Len(abs)]].kind = "text"
    THEN Ok(files[abs[Len(abs)]].content)
    ELSE Err

-----------------------------------------------------------------------------
(* GitDiffTracker.  A method taking &mut self is an operator whose value   *)
(* holds what it returns (ret), the git invocations it made, in order      *)
(* (invoked), and the fields of the tracker when it returns (self).        *)

A(word) == << word >>

Self == [enabled |-> enabled,
         initial_git_hash |-> initial_git_hash,
         last_diff_hash |-> last_diff_hash]

\* String::from_utf8_lossy: every byte that is no UTF-8 becomes U+FFFD.
Replacement == "U+FFFD"
Utf8Lossy(bytes) ==
    [i \in 1..Len(bytes) |-> IF bytes[i] = BadByte THEN Replacement ELSE bytes[i]]

\* run_git: Err when git cannot be launched; a non-zero exit status is Ok("").
run_git(args) ==
    IF ~gitUp \/ fault[CommandOf(args)] = "launch" THEN Err
    ELSE IF Git(args).success THEN Ok(Utf8Lossy(Git(args).stdout))
    ELSE Ok(<< >>)

RevParseArgs == << A("rev-parse"), A("HEAD") >>

\* capture_initial_state without the test for empty output: only a git that
\* cannot be launched disables the tracker.
capture_initial_state_any_output ==
    LET r == run_git(RevParseArgs) IN
    IF r.ok
    THEN [enabled |-> TRUE, initial_git_hash |-> Some(Trim(r.out))]
    ELSE [enabled |-> FALSE, initial_git_hash |-> None]

\* capture_initial_state leaving the tracker enabled when it captured nothing.
capture_initial_state_keeping_enabled ==
    LET r == run_git(RevParseArgs) IN
    IF r.ok /\ Trim(r.out) # << >>
    THEN [enabled |-> TRUE, initial_git_hash |-> Some(Trim(r.out))]
    ELSE [enabled |-> TRUE, initial_git_hash |-> None]

\* capture_initial_state: the fields enabled and initial_git_hash it leaves.
capture_initial_state ==
    LET r == run_git(RevParseArgs) IN
    IF r.ok /\ Trim(r.out) # << >>
    THEN [enabled |-> TRUE, initial_git_hash |-> Some(Trim(r.out))]
    ELSE [enabled |-> FALSE, initial_git_hash |-> None]

\* GitDiffTracker::new(enabled, cwd): the fields of the new tracker.
new(enabledArg) ==
    IF enabledArg
    THEN [enabled |-> capture_initial_state.enabled,
          initial_git_hash |-> capture_initial_state.initial_git_hash,
          last_diff_hash |-> None,
          invoked |-> << RevParseArgs >>]
    ELSE [enabled |-> FALSE,
          initial_git_hash |-> None,
          last_diff_hash |-> None,
          invoked |-> << >>]

WorktreeListArgs == << A("worktree"), A("list"), A("--porcelain") >>

\* ExclusionOfLine with a pattern for every worktree but the tracker's directory:
\* the path as listed when it is not below that directory.
ExclusionOfLine_every_worktree(line, current_dir) ==
    IF line # << >> /\ Head(line) = "worktree "
    THEN LET worktree == PathFrom(Trim(Tail(line)))
             rel == StripPrefix(worktree, current_dir)
         IN IF worktree = current_dir THEN << >>
            ELSE IF rel.ok THEN << << ":(exclude)" >> \o JoinComponents(rel.out) >>
            ELSE << << ":(exclude)" >> \o Trim(Tail(line)) >>
    ELSE << >>

\* The exclusion pattern of one line of the worktree listing, if it gives one.
ExclusionOfLine(line, current_dir) ==
    IF line # << >> /\ Head(line) = "worktree "
    THEN LET worktree == PathFrom(Trim(Tail(line)))
             rel == StripPrefix(worktree, current_dir)
         IN IF worktree # current_dir /\ rel.ok /\ JoinComponents(rel.out) # << >>
            THEN << << ":(exclude)" >> \o JoinComponents(rel.out) >>
            ELSE << >>
    ELSE << >>

RECURSIVE ExclusionsOfLines(_, _)
ExclusionsOfLines(lines, current_dir) ==
    IF lines = << >> THEN << >>
    ELSE ExclusionOfLine(Head(lines), current_dir)
         \o ExclusionsOfLines(Tail(lines), current_dir)

get_worktree_exclusions ==
    LET raw == run_git(WorktreeListArgs) IN
    IF raw.ok THEN ExclusionsOfLines(Lines(raw.out), Cwd) ELSE << >>

\* "--" and the patterns, when there are patterns.
WithExclusions(args, exclude_patterns) ==
    IF exclude_patterns # << >> THEN args \o << A("--") >> \o exclude_patterns ELSE args

LsFilesArgs(exclude_patterns) ==
    WithExclusions(<< A("ls-files"), A("--others"), A("--exclude-standard") >>,
                   exclude_patterns)

\* The hunk of a new file: its lines, or the placeholder when it cannot be read.
RECURSIVE PlusLines(_)
PlusLines(lines) ==
    IF lines = << >> THEN << >>
    ELSE << "+" >> \o Head(lines) \o << NL >> \o PlusLines(Tail(lines))

NoNewlineMarker == "\\ No newline at end of file"
Placeholder == "+[Binary or unreadable file]"

\* The number of "\n" in a text.
RECURSIVE CountNL(_)
CountNL(s) ==
    IF s = << >> THEN 0
    ELSE (IF Head(s) = NL THEN 1 ELSE 0) + CountNL(Tail(s))

\* NewFileHunk giving the number of newlines for the number of lines.
NewFileHunk_newline_count(abs) ==
    LET r == ReadToString(abs) IN
    IF r.ok
    THEN << "@@ -0,0 +1,", ToString(CountNL(r.out)), " @@", NL >>
         \o PlusLines(Lines(r.out))
         \o (IF ~EndsWithNewline(r.out) THEN << NoNewlineMarker, NL >> ELSE << >>)
    ELSE << "@@ -0,0 +1,", "1", " @@", NL, Placeholder, NL >>

\* NewFileHunk with the marker after every file that can be read.
NewFileHunk_marker_always(abs) ==
    LET r == ReadToString(abs) IN
    IF r.ok
    THEN << "@@ -0,0 +1,", ToString(Len(Lines(r.out))), " @@", NL >>
         \o PlusLines(Lines(r.out))
         \o << NoNewlineMarker, NL >>
    ELSE << "@@ -0,0 +1,", "1", " @@", NL, Placeholder, NL >>

NewFileHunk(abs) ==
    LET r == ReadToString(abs) IN
    IF r.ok
    THEN << "@@ -0,0 +1,", ToString(Len(Lines(r.out))), " @@", NL >>
         \o PlusLines(Lines(r.out))
         \o (IF ~EndsWithNewline(r.out) THEN << NoNewlineMarker, NL >> ELSE << >>)
    ELSE << "@@ -0,0 +1,", "1", " @@", NL, Placeholder, NL >>

\* Skipped leaving out also the file whose timestamp is the session's start.
Skipped_at_start(abs) == ~FileTime(abs).ok \/ FileTime(abs).out <= session_start_time

\* Whether a listed file is skipped: it has no timestamp, or one before the session.
Skipped(abs) == ~FileTime(abs).ok \/ FileTime(abs).out < session_start_time

\* What one listed file adds to the buffer.
NewFileBlock(rel) ==
    LET abs == PathJoin(Cwd, rel) IN
    IF Skipped(abs) THEN << >>
    ELSE << "diff --git a/" >> \o rel \o << " b/" >> \o rel \o << NL >>
         \o << "new file mode 100644", NL >>
         \o << "index 0000000..0000000", NL >>
         \o << "--- /dev/null", NL >>
         \o << "+++ b/" >> \o rel \o << NL >>
         \o NewFileHunk(abs)
         \o << NL >>

\* NewFileBlocks giving up the whole listing when one of the files cannot be read.
NewFileBlocks_all_or_nothing(rels) ==
    IF \E k \in 1..Len(rels) :
          ~Skipped(PathJoin(Cwd, rels[k])) /\ ~ReadToString(PathJoin(Cwd, rels[k])).ok
    THEN << >>
    ELSE LET Block(k) == NewFileBlock(rels[k])
             Blocks[k \in 0..Len(rels)] == IF k = 0 THEN << >> ELSE Blocks[k - 1] \o Block(k)
         IN Blocks[Len(rels)]

RECURSIVE NewFileBlocks(_)
NewFileBlocks(rels) ==
    IF rels = << >> THEN << >>
    ELSE NewFileBlock(Head(rels)) \o NewFileBlocks(Tail(rels))

NonBlank(line) == Trim(line) # << >>

get_untracked_files(exclude_patterns) ==
    LET out == run_git(LsFilesArgs(exclude_patterns)) IN
    IF ~out.ok THEN << >>
    ELSE NewFileBlocks(SelectSeq(Lines(out.out), NonBlank))

\* The diff against HEAD, whatever baseline was captured.
DiffArgs_head(exclude_patterns) ==
    WithExclusions(<< A("diff"), A("HEAD") >>, exclude_patterns)

DiffArgs(exclude_patterns) ==
    WithExclusions(IF initial_git_hash # None
                   THEN << A("diff"), initial_git_hash.v >>
                   ELSE << A("diff"), A("HEAD") >>,
                   exclude_patterns)

\* Combine with the newline before the untracked files also after an empty diff.
Combine_always_separated(diffOut, untracked) ==
    LET combined == IF diffOut.ok THEN Trim(diffOut.out) ELSE << >> IN
    IF untracked # << >> THEN combined \o << NL >> \o untracked ELSE combined

\* Combine with the output of `git diff` as it is, not trimmed.
Combine_untrimmed(diffOut, untracked) ==
    LET combined == IF diffOut.ok THEN diffOut.out ELSE << >> IN
    IF untracked # << >>
    THEN (IF combined # << >> THEN combined \o << NL >> ELSE << >>) \o untracked
    ELSE combined

\* The two segments of get_diff, joined.
Combine(diffOut, untracked) ==
    LET combined == IF diffOut.ok THEN Trim(diffOut.out) ELSE << >> IN
    IF untracked # << >>
    THEN (IF combined # << >> THEN combined \o << NL >> ELSE << >>) \o untracked
    ELSE combined

\* get_diff keeping the digest of what it returns in last_diff_hash.
get_diff_storing_digest ==
    IF ~enabled
    THEN [ret |-> None, invoked |-> << >>, self |-> Self]
    ELSE LET exclude_patterns == get_worktree_exclusions
             combined == Combine(run_git(DiffArgs(exclude_patterns)),
                                 get_untracked_files(exclude_patterns))
         IN [ret |-> Some(combined),
             invoked |-> << WorktreeListArgs, DiffArgs(exclude_patterns),
                            LsFilesArgs(exclude_patterns) >>,
             self |-> [Self EXCEPT !.last_diff_hash = Some(Sha1Hex(combined))]]

\* get_diff listing the untracked files without the exclusion patterns.
get_diff_listing_all ==
    IF ~enabled
    THEN [ret |-> None, invoked |-> << >>, self |-> Self]
    ELSE LET exclude_patterns == get_worktree_exclusions IN
         [ret |-> Some(Combine(run_git(DiffArgs(exclude_patterns)),
                               get_untracked_files(<< >>))),
          invoked |-> << WorktreeListArgs, DiffArgs(exclude_patterns),
                         LsFilesArgs(<< >>) >>,
          self |-> Self]

\* get_diff giving up, and the tracker with it, when `git diff` cannot be run.
get_diff_giving_up ==
    IF ~enabled
    THEN [ret |-> None, invoked |-> << >>, self |-> Self]
    ELSE LET exclude_patterns == get_worktree_exclusions
             out == run_git(DiffArgs(exclude_patterns))
         IN IF ~out.ok \/ out.out = << >>
            THEN [ret |-> None,
                  invoked |-> << WorktreeListArgs, DiffArgs(exclude_patterns) >>,
                  self |-> [Self EXCEPT !.enabled = FALSE]]
            ELSE [ret |-> Some(Combine(out, get_untracked_files(exclude_patterns))),
                  invoked |-> << WorktreeListArgs, DiffArgs(exclude_patterns),
                                 LsFilesArgs(exclude_patterns) >>,
                  self |-> Self]

\* get_diff asking git for the worktrees before it looks at the field enabled.
get_diff_listing_worktrees_first ==
    LET exclude_patterns == get_worktree_exclusions IN
    IF ~enabled
    THEN [ret |-> None, invoked |-> << WorktreeListArgs >>, self |-> Self]
    ELSE [ret |-> Some(Combine(run_git(DiffArgs(exclude_patterns)),
                               get_untracked_files(exclude_patterns))),
          invoked |-> << WorktreeListArgs, DiffArgs(exclude_patterns),
                         LsFilesArgs(exclude_patterns) >>,
          self |-> Self]

\* What get_diff, and with it get_diff_if_changed, returns for a disabled tracker.
Unavailable == None

get_diff ==
    IF ~enabled
    THEN [ret |-> Unavailable, invoked |-> << >>, self |-> Self]
    ELSE LET exclude_patterns == get_worktree_exclusions IN
         [ret |-> Some(Combine(run_git(DiffArgs(exclude_patterns)),
                               get_untracked_files(exclude_patterns))),
          invoked |-> << WorktreeListArgs, DiffArgs(exclude_patterns),
                         LsFilesArgs(exclude_patterns) >>,
          self |-> Self]

\* get_diff_if_changed returning the diff as get_diff gave it, not trimmed.
get_diff_if_changed_untrimmed ==
    LET d == get_diff IN
    IF d.ret = None THEN d
    ELSE LET trimmed == Trim(d.ret.v)
             hash == Sha1Hex(trimmed)
         IN IF d.self.last_diff_hash = Some(hash)
            THEN [d EXCEPT !.ret = None]
            ELSE [d EXCEPT !.self.last_diff_hash = Some(hash)]

\* get_diff_if_changed taking the digest of the diff before trimming it.
get_diff_if_changed_digest_untrimmed ==
    LET d == get_diff IN
    IF d.ret = None THEN d
    ELSE LET trimmed == Trim(d.ret.v)
             hash == Sha1Hex(d.ret.v)
         IN IF d.self.last_diff_hash = Some(hash)
            THEN [d EXCEPT !.ret = None]
            ELSE [d EXCEPT !.ret = Some(trimmed), !.self.last_diff_hash = Some(hash)]

\* get_diff_if_changed answering an unchanged diff with the empty string.
get_diff_if_changed_empty_when_unchanged ==
    LET d == get_diff IN
    IF d.ret = None THEN d
    ELSE LET trimmed == Trim(d.ret.v)
             hash == Sha1Hex(trimmed)
         IN IF d.self.last_diff_hash = Some(hash)
            THEN [d EXCEPT !.ret = Some(<< >>)]
            ELSE [d EXCEPT !.ret = Some(trimmed), !.self.last_diff_hash = Some(hash)]

\* get_diff_if_changed as its comment has it: a diff "only if it is non-empty".
get_diff_if_changed_non_empty ==
    LET d == get_diff IN
    IF d.ret = None THEN d
    ELSE LET trimmed == Trim(d.ret.v)
             hash == Sha1Hex(trimmed)
         IN IF trimmed = << >> \/ d.self.last_diff_hash = Some(hash)
            THEN [d EXCEPT !.ret = None]
            ELSE [d EXCEPT !.ret = Some(trimmed), !.self.last_diff_hash = Some(hash)]

get_diff_if_changed ==
    LET d == get_diff IN
    IF d.ret = None THEN d
    ELSE LET trimmed == Trim(d.ret.v)
             hash == Sha1Hex(trimmed)
         IN IF d.self.last_diff_hash = Some(hash)
            THEN [d EXCEPT !.ret = None]
            ELSE [d EXCEPT !.ret = Some(trimmed), !.self.last_diff_hash = Some(hash)]

-----------------------------------------------------------------------------
(* OmnaraBridge.  The bridge spawns a task for each message it sends; a task  *)
(* runs from one await to the next, and so does the client's polling, which  *)
(* calls the closure of start_polling_impl with each remote message it gets. *)

\* enum ApprovalKind
ApprovalKind == { "Exec", "Patch" }

\* What the remote user writes: the answers of an approval prompt, in several
\* spellings, and other texts.  A text is the sequence of its words and blanks.
RemoteTexts ==
    { << "yes" >>, << " ", "Yes", NL >>, << "ALWAYS" >>, << "no" >>,
      << "No", ", Provide Feedback" >>, << "yes", " ", "please" >> }

\* str::to_lowercase, word by word.
LowerWord(w) ==
    CASE w \in { "Yes", "YES" } -> "yes"
      [] w \in { "Always", "ALWAYS" } -> "always"
      [] w \in { "No", "NO" } -> "no"
      [] w = ", Provide Feedback" -> ", provide feedback"
      [] OTHER -> w

ToLowercase(s) == [i \in 1..Len(s) |-> LowerWord(s[i])]

\* parse_approval_response without the trim.
parse_approval_response_untrimmed(message) ==
    LET normalized == ToLowercase(message) IN
    IF normalized = << "yes" >> THEN Some("Approved")
    ELSE IF normalized = << "always" >> THEN Some("ApprovedForSession")
    ELSE IF normalized = << "no", ", provide feedback" >> \/ normalized = << "no" >>
    THEN Some("Abort")
    ELSE None

parse_approval_response(message) ==
    LET normalized == ToLowercase(Trim(message)) IN
    IF normalized = << "yes" >> THEN Some("Approved")
    ELSE IF normalized = << "always" >> THEN Some("ApprovedForSession")
    ELSE IF normalized = << "no", ", provide feedback" >> \/ normalized = << "no" >>
    THEN Some("Abort")
    ELSE None

\* What the closure sends: AppEvents on app_event_tx, Ops on codex_op_tx.
ResolveApproval(decision) == [chan |-> "app_event_tx", ev |-> "ResolveApproval", arg |-> decision]
InsertHistoryCell(text) == [chan |-> "app_event_tx", ev |-> "InsertHistoryCell", arg |-> text]
UserInput(text) == [chan |-> "codex_op_tx", ev |-> "UserInput", arg |-> text]
AddToHistory(text) == [chan |-> "codex_op_tx", ev |-> "AddToHistory", arg |-> text]

\* The three sends that pass a remote message on as the user's input.
Forward(text) == << InsertHistoryCell(text), UserInput(text), AddToHistory(text) >>

\* The closure sending the message to the agent before it shows it.
Callback_input_first(text, q) ==
    LET decision == parse_approval_response(text) IN
    IF q # << >>
    THEN [q |-> Tail(q),
          sent |-> << ResolveApproval(IF decision # None THEN decision.v ELSE "Abort") >>]
    ELSE [q |-> q, sent |-> << UserInput(text), InsertHistoryCell(text), AddToHistory(text) >>]

\* The closure given to client.start_polling, called with a remote message while
\* the queue is q: the queue it leaves and what it sends, in order.
Callback(text, q) ==
    LET decision == parse_approval_response(text) IN
    IF decision # None
    THEN IF q # << >>
         THEN [q |-> Tail(q), sent |-> << ResolveApproval(decision.v) >>]
         ELSE [q |-> q, sent |-> Forward(text)]
    ELSE IF q # << >>
         THEN [q |-> Tail(q), sent |-> << ResolveApproval("Abort") >>]
         ELSE [q |-> q, sent |-> Forward(text)]

\* A task: the method that spawned it (op), where it is (pc), and what it holds.
\* sent and last are notes for the observation: the result of the send of an
\* approval request, and the most recent on_agent_message task there was when
\* on_task_complete spawned the task.
Task(op, pc) == [op |-> op, pc |-> pc, request_after |-> FALSE, handle |-> None,
                 request_id |-> None, kind |-> "none", sent |-> "none", last |-> None]

\* No step of the bridge is the last step.
NoStep == [act |-> "none", op |-> "none", request_id |-> None, text |-> << >>,
           replyTo |-> None,
           before |-> << >>, sent |-> << >>, sendOutstanding |-> FALSE,
           pushedBefore |-> {}]

\* OmnaraBridge::new: no handle, an empty queue; the client does not poll.
BridgeNew ==
    /\ pending = << >>
    /\ last_agent_send_handle = None
    /\ tasks = << >>
    /\ polling = FALSE
    /\ pushed = {}
    /\ lastAgentTask = None
    /\ bobs = NoStep

-----------------------------------------------------------------------------
(* The state machine. *)

\* Since the last call of get_diff_if_changed: whether there was one (called), and
\* after it, whether the working tree changed (changed), whether the tracked file
\* did (tracked), whether get_diff was called (polled).
NoneSince == [called |-> FALSE, changed |-> FALSE, tracked |-> FALSE, polled |-> FALSE]
JustCalled == [called |-> TRUE, changed |-> FALSE, tracked |-> FALSE, polled |-> FALSE]

\* No call of the tracker is the last step.
NoCall == [op |-> "none", ret |-> None, invoked |-> << >>, since |-> NoneSince,
           prev |-> None, hashBefore |-> None]

\* Before the session: no tracker yet, an empty directory but for the file t.
NoTracker ==
    /\ constructed = FALSE
    /\ enabled = FALSE
    /\ initial_git_hash = None
    /\ session_start_time = 0
    /\ last_diff_hash = None
    /\ now = 0
    /\ workVer = 0
    /\ files = [f \in FileNames |-> NoFile]
    /\ worktrees = [p \in LinkedPaths |-> Absent]
    /\ fault = NoFault
    /\ BridgeNew
    /\ obs = NoCall
    /\ lastReturned = None
    /\ since = NoneSince
    /\ atNew = [requested |-> FALSE, enabled |-> FALSE, initial_git_hash |-> None]

\* The directory may or may not be a repository, git may or may not be installed.
Init ==
    /\ NoTracker
    /\ gitUp \in BOOLEAN
    /\ isRepo \in BOOLEAN
    /\ commits = << >>
    /\ birthAvail = TRUE

\* A repository with one commit, on a platform that may not tell creation times.
InitRepo ==
    /\ NoTracker
    /\ gitUp = TRUE
    /\ isRepo = TRUE
    /\ commits = << 0 >>
    /\ birthAvail \in BOOLEAN

\* A change of the working tree is noted against the last get_diff_if_changed.
TreeChanged ==
    since' = IF since.called THEN [since EXCEPT !.changed = TRUE] ELSE since
TrackedChanged ==
    since' = IF since.called THEN [since EXCEPT !.changed = TRUE, !.tracked = TRUE]
             ELSE since

(* ---- the environment ---- *)

\* Time passes.  The tracker reads the clock once, at construction, and files
\* carry the reading of the moment they were made or written at.
Tick ==
    /\ now < MaxTime
    /\ now' = now + 1
    /\ obs' = NoCall
    /\ UNCHANGED << trackerVars, gitUp, isRepo, commits, workVer, files, worktrees,
                    birthAvail, fault, lastReturned, since, atNew, bridgeVars >>

InstallGit ==
    /\ ~gitUp
    /\ gitUp' = TRUE
    /\ obs' = NoCall
    /\ UNCHANGED << trackerVars, now, isRepo, commits, workVer, files, worktrees,
                    birthAvail, fault, lastReturned, since, atNew, bridgeVars >>

\* git is removed, or no longer on the PATH.
UninstallGit ==
    /\ gitUp
    /\ gitUp' = FALSE
    /\ obs' = NoCall
    /\ UNCHANGED << trackerVars, now, isRepo, commits, workVer, files, worktrees,
                    birthAvail, fault, lastReturned, since, atNew, bridgeVars >>

\* One git command starts to fail: it cannot be launched (mode "launch"), or it
\* exits with a non-zero status (mode "exit").
SetFault(c, mode) ==
    /\ fault = NoFault
    /\ fault' = [NoFault EXCEPT ![c] = mode]
    /\ obs' = NoCall
    /\ UNCHANGED << trackerVars, now, gitUp, isRepo, commits, workVer, files, worktrees,
                    birthAvail, lastReturned, since, atNew, bridgeVars >>

\* It works again.
ClearFault ==
    /\ fault # NoFault
    /\ fault' = NoFault
    /\ obs' = NoCall
    /\ UNCHANGED << trackerVars, now, gitUp, isRepo, commits, workVer, files, worktrees,
                    birthAvail, lastReturned, since, atNew, bridgeVars >>

GitInit ==
    /\ gitUp /\ ~isRepo
    /\ isRepo' = TRUE
    /\ obs' = NoCall
    /\ UNCHANGED << trackerVars, now, gitUp, commits, workVer, files, worktrees,
                    birthAvail, fault, lastReturned, since, atNew, bridgeVars >>

\* `git commit -a`: HEAD moves to a commit of the tracked file as it is.
Commit ==
    /\ gitUp /\ isRepo
    /\ Len(commits) < MaxCommits
    /\ commits' = Append(commits, workVer)
    /\ obs' = NoCall
    /\ UNCHANGED << trackerVars, now, gitUp, isRepo, workVer, files, worktrees,
                    birthAvail, fault, lastReturned, since, atNew, bridgeVars >>

ModifyTracked(v) ==
    /\ v # workVer
    /\ workVer' = v
    /\ TrackedChanged
    /\ obs' = NoCall
    /\ UNCHANGED << trackerVars, now, gitUp, isRepo, commits, files, worktrees,
                    birthAvail, fault, lastReturned, atNew, bridgeVars >>

CreateFile(f, kind, c) ==
    /\ files[f] = NoFile
    /\ kind \in FileKinds
    /\ kind = "text" \/ c = << >>
    /\ files' = [files EXCEPT ![f] = [kind |-> kind, created |-> now,
                                      modified |-> now, content |-> c]]
    /\ TreeChanged
    /\ obs' = NoCall
    /\ UNCHANGED << trackerVars, now, gitUp, isRepo, commits, workVer, worktrees,
                    birthAvail, fault, lastReturned, atNew, bridgeVars >>

ModifyFile(f, c) ==
    /\ files[f] # NoFile
    /\ files[f].kind = "text"
    /\ c # files[f].content
    /\ files' = [files EXCEPT ![f].content = c, ![f].modified = now]
    /\ TreeChanged
    /\ obs' = NoCall
    /\ UNCHANGED << trackerVars, now, gitUp, isRepo, commits, workVer, worktrees,
                    birthAvail, fault, lastReturned, atNew, bridgeVars >>

DeleteFile(f) ==
    /\ files[f] # NoFile
    /\ files' = [files EXCEPT ![f] = NoFile]
    /\ TreeChanged
    /\ obs' = NoCall
    /\ UNCHANGED << trackerVars, now, gitUp, isRepo, commits, workVer, worktrees,
                    birthAvail, fault, lastReturned, atNew, bridgeVars >>

\* `git worktree add <p>`: a checkout of the repository at p.
AddWorktree(p) ==
    /\ gitUp /\ isRepo /\ Len(commits) > 0
    /\ worktrees[p] = Absent
    /\ worktrees' = [worktrees EXCEPT ![p] = now]
    /\ obs' = NoCall
    /\ UNCHANGED << trackerVars, now, gitUp, isRepo, commits, workVer, files,
                    birthAvail, fault, lastReturned, since, atNew, bridgeVars >>

RemoveWorktree(p) ==
    /\ worktrees[p] # Absent
    /\ worktrees' = [worktrees EXCEPT ![p] = Absent]
    /\ obs' = NoCall
    /\ UNCHANGED << trackerVars, now, gitUp, isRepo, commits, workVer, files,
                    birthAvail, fault, lastReturned, since, atNew, bridgeVars >>

(* ---- the tracker ---- *)

\* GitDiffTracker::new(enabledArg, Some(Cwd)).  SystemTime::now() is read after
\* everything that was there before, so that it is later than all their times.
New(enabledArg) ==
    /\ ~constructed
    /\ now' = now + 1
    /\ constructed' = TRUE
    /\ session_start_time' = now + 1
    /\ LET r == new(enabledArg) IN
       /\ enabled' = r.enabled
       /\ initial_git_hash' = r.initial_git_hash
       /\ last_diff_hash' = r.last_diff_hash
       /\ atNew' = [requested |-> enabledArg, enabled |-> r.enabled,
                    initial_git_hash |-> r.initial_git_hash]
       /\ obs' = [op |-> "new", ret |-> None, invoked |-> r.invoked,
                  since |-> since, prev |-> lastReturned, hashBefore |-> last_diff_hash]
    /\ UNCHANGED << gitUp, isRepo, commits, workVer, files, worktrees, birthAvail, fault,
                    bridgeVars,
                    lastReturned, since >>

\* A call of get_diff.
GetDiff ==
    /\ constructed
    /\ LET r == get_diff IN
       /\ enabled' = r.self.enabled
       /\ initial_git_hash' = r.self.initial_git_hash
       /\ last_diff_hash' = r.self.last_diff_hash
       /\ obs' = [op |-> "get_diff", ret |-> r.ret, invoked |-> r.invoked,
                  since |-> since, prev |-> lastReturned, hashBefore |-> last_diff_hash]
    /\ since' = IF since.called THEN [since EXCEPT !.polled = TRUE] ELSE since
    /\ UNCHANGED << constructed, session_start_time, envVars, lastReturned, atNew, bridgeVars >>

\* A call of get_diff_if_changed.
GetDiffIfChanged ==
    /\ constructed
    /\ LET r == get_diff_if_changed IN
       /\ enabled' = r.self.enabled
       /\ initial_git_hash' = r.self.initial_git_hash
       /\ last_diff_hash' = r.self.last_diff_hash
       /\ obs' = [op |-> "get_diff_if_changed", ret |-> r.ret, invoked |-> r.invoked,
                  since |-> since, prev |-> lastReturned, hashBefore |-> last_diff_hash]
       /\ lastReturned' = IF r.ret # None THEN r.ret ELSE lastReturned
    /\ since' = JustCalled
    /\ UNCHANGED << constructed, session_start_time, envVars, atNew, bridgeVars >>

\* A session in a directory that may be no repository or have no commit, with a
\* tracked file that is edited and committed and a new file beside it.  The git
\* tool, once it runs, keeps running.
Next ==
    \/ InstallGit
    \/ GitInit
    \/ Commit
    \/ \E v \in TrackedContents : ModifyTracked(v)
    \/ \E c \in SomeContents : CreateFile("n1", "text", c)
    \/ \E c \in SomeContents : ModifyFile("n1", c)
    \/ DeleteFile("n1")
    \/ \E enabledArg \in BOOLEAN : New(enabledArg)
    \/ GetDiff
    \/ GetDiffIfChanged

Spec == Init /\ [][Next]_vars

\* A session in a repository where untracked files of every kind are made, written
\* and removed, before the tracker is constructed and after, as time passes.
NextFiles ==
    \/ Tick
    \/ \E c \in SomeContents : CreateFile("n1", "text", c)
    \/ \E kind \in { "binary", "nostat" } : CreateFile("n1", kind, << >>)
    \/ \E c \in SomeContents : ModifyFile("n1", c)
    \/ DeleteFile("n1")
    \/ New(TRUE)
    \/ GetDiff
    \/ GetDiffIfChanged

SpecFiles == InitRepo /\ [][NextFiles]_vars

\* A session in a repository where new text files of every content are made, and
\* files that cannot be read as text.
NextSynth ==
    \/ constructed /\ Tick
    \/ \E c \in AllContents : CreateFile("n1", "text", c)
    \/ \E c \in SomeContents : CreateFile("n2", "text", c)
    \/ \E f \in FileNames : CreateFile(f, "binary", << >>)
    \/ \E f \in FileNames : DeleteFile(f)
    \/ New(TRUE)
    \/ GetDiff

SpecSynth == InitRepo /\ [][NextSynth]_vars

\* A session in a repository whose linked worktrees come and go, inside the
\* tracker's directory and beside it.
NextWorktrees ==
    \/ \E p \in LinkedPaths : AddWorktree(p)
    \/ \E p \in LinkedPaths : RemoveWorktree(p)
    \/ \E v \in TrackedContents : ModifyTracked(v)
    \/ \E c \in SomeContents : CreateFile("n1", "text", c)
    \/ DeleteFile("n1")
    \/ New(TRUE)
    \/ GetDiff

SpecWorktrees == InitRepo /\ [][NextWorktrees]_vars

\* A session in a repository where git commands fail, one at a time or all at
\* once, and work again, and where the tracked file gets a content that is not UTF-8.
NextFaulty ==
    \/ UninstallGit
    \/ InstallGit
    \/ \E c \in Commands, mode \in FaultModes : SetFault(c, mode)
    \/ ClearFault
    \/ \E v \in TrackedContents \cup { Latin1Content } : ModifyTracked(v)
    \/ \E c \in SomeContents : CreateFile("n1", "text", c)
    \/ DeleteFile("n1")
    \/ AddWorktree(WtInside)
    \/ RemoveWorktree(WtInside)
    \/ \E enabledArg \in BOOLEAN : New(enabledArg)
    \/ GetDiff

SpecFaulty == InitRepo /\ [][NextFaulty]_vars

(* ---- the bridge ---- *)

\* The methods that spawn a task which sends one message and ends.
SendOnlyOps == { "send_note", "on_local_user_message", "on_session_end" }
\* The methods that spawn a task which sends a message that requires input and
\* starts polling whatever the result of the send.
SendThenPollOps == { "on_user_interrupt", "on_session_start" }
\* The methods that ask for an approval.
ApprovalOps == { "send_exec_approval_request", "send_patch_approval_request" }

\* tokio::spawn: the task is put on the runtime, and its handle is its place there.
Spawn(task) ==
    /\ Len(tasks) < MaxTasks
    /\ tasks' = Append(tasks, task)
    /\ bobs' = NoStep

\* A step of the task t: the task as it goes on, and what the step is noted as.
Step(t, task, act) ==
    /\ tasks' = [tasks EXCEPT ![t] = task]
    /\ bobs' = [NoStep EXCEPT !.act = act, !.op = task.op,
                              !.request_id = task.request_id,
                              !.before = IF act = "push" THEN pending ELSE << >>,
                              !.pushedBefore = IF act = "push" THEN pushed ELSE {}]

\* The approval request r is with the remote user: its message was sent.
Sent(r) == r \in 1..Len(tasks) /\ tasks[r].sent = "ok"

\* The task t ended: JoinHandle::await on its handle returns.
Finished(t) == tasks[t].pc = "done"

\* on_agent_message(message, request_after)
OnAgentMessage(request_after) ==
    /\ Spawn([Task("on_agent_message", "send") EXCEPT !.request_after = request_after])
    /\ last_agent_send_handle' = Some(Len(tasks) + 1)
    /\ lastAgentTask' = Some(Len(tasks) + 1)
    /\ UNCHANGED << diffVars, pending, polling, pushed >>

\* on_task_complete
OnTaskComplete ==
    /\ IF last_agent_send_handle # None
       THEN Spawn([Task("on_task_complete", "await")
                       EXCEPT !.handle = last_agent_send_handle,
                              !.last = lastAgentTask])
       ELSE Spawn([Task("on_task_complete", "request") EXCEPT !.last = lastAgentTask])
    /\ last_agent_send_handle' = None
    /\ UNCHANGED << diffVars, pending, polling, pushed,
                    lastAgentTask >>

\* send_note
SendNote ==
    /\ Spawn(Task("send_note", "send"))
    /\ UNCHANGED << diffVars, pending, last_agent_send_handle, polling, pushed,
                    lastAgentTask >>

\* on_local_user_message
OnLocalUserMessage ==
    /\ Spawn(Task("on_local_user_message", "send"))
    /\ UNCHANGED << diffVars, pending, last_agent_send_handle, polling, pushed,
                    lastAgentTask >>

\* on_session_end
OnSessionEnd ==
    /\ Spawn(Task("on_session_end", "send"))
    /\ UNCHANGED << diffVars, pending, last_agent_send_handle, polling, pushed,
                    lastAgentTask >>

\* on_user_interrupt
OnUserInterrupt ==
    /\ Spawn(Task("on_user_interrupt", "send"))
    /\ UNCHANGED << diffVars, pending, last_agent_send_handle, polling, pushed,
                    lastAgentTask >>

\* on_session_start, on startup
OnSessionStart ==
    /\ tasks = << >>
    /\ Spawn(Task("on_session_start", "send"))
    /\ UNCHANGED << diffVars, pending, last_agent_send_handle, polling, pushed,
                    lastAgentTask >>

\* cancel_polling
CancelPolling ==
    /\ polling
    /\ polling' = FALSE
    /\ bobs' = NoStep
    /\ UNCHANGED << diffVars, pending, last_agent_send_handle, tasks,
                    pushed, lastAgentTask >>

\* An approval request.  The identifiers of the requests of a session differ:
\* a request is named by the place of its task.
SendApprovalRequest(op, kind) ==
    /\ kind \in ApprovalKind
    /\ Len(tasks) < MaxRequests
    /\ Spawn([Task(op, "send") EXCEPT !.request_id = Some(Len(tasks) + 1), !.kind = kind])
    /\ UNCHANGED << diffVars, pending, last_agent_send_handle, polling, pushed,
                    lastAgentTask >>

\* send_exec_approval_request
SendExecApprovalRequest == SendApprovalRequest("send_exec_approval_request", "Exec")

\* send_patch_approval_request
SendPatchApprovalRequest == SendApprovalRequest("send_patch_approval_request", "Patch")

\* Where an approval task goes on after a send that failed as well.
AfterApprovalSend_whatever_the_result(ok) == "push"

\* Where an approval task goes on after its send: `if let Ok(id) = ...`.
AfterApprovalSend(ok) == IF ok THEN "push" ELSE "done"

\* Where the task goes on after client.send_agent_message(..).await gave its result.
AfterSend(task, ok) ==
    IF task.op = "on_agent_message" THEN (IF task.request_after THEN "request" ELSE "done")
    ELSE IF task.op \in SendThenPollOps THEN "poll"
    ELSE IF task.op \in ApprovalOps THEN AfterApprovalSend(ok)
    ELSE "done"

\* The task t gets the result of its send.  An approval message that was sent is
\* with the remote user from now on.
TaskSend(t, ok) ==
    /\ tasks[t].pc = "send"
    /\ Step(t, [tasks[t] EXCEPT !.pc = AfterSend(tasks[t], ok),
                                !.sent = IF tasks[t].op \notin ApprovalOps THEN "none"
                                         ELSE IF ok THEN "ok" ELSE "err"], "send")
    /\ UNCHANGED << diffVars, pending, last_agent_send_handle, polling,
                    pushed, lastAgentTask >>

\* The task t of on_task_complete gets over `handle.await`.
TaskAwait(t) ==
    /\ tasks[t].pc = "await"
    /\ Finished(tasks[t].handle.v)
    /\ Step(t, [tasks[t] EXCEPT !.pc = "request"], "await")
    /\ UNCHANGED << diffVars, pending, last_agent_send_handle, polling, pushed,
                    lastAgentTask >>

\* The task t gets over client.request_user_input_for_last_message().await.
TaskRequest(t) ==
    /\ tasks[t].pc = "request"
    /\ tasks' = [tasks EXCEPT ![t].pc = "poll"]
    /\ bobs' = [NoStep EXCEPT
                   !.act = "request", !.op = tasks[t].op,
                   !.sendOutstanding =
                       /\ tasks[t].last # None
                       /\ ~Finished(tasks[t].last.v)]
    /\ UNCHANGED << diffVars, pending, last_agent_send_handle, polling, pushed,
                    lastAgentTask >>

\* The approval task t puts its entry in the queue.
TaskPush(t) ==
    /\ tasks[t].pc = "push"
    /\ pending' = Append(pending, << tasks[t].request_id.v, tasks[t].kind >>)
    /\ pushed' = pushed \cup { tasks[t].request_id.v }
    /\ Step(t, [tasks[t] EXCEPT !.pc = "poll"], "push")
    /\ UNCHANGED << diffVars, last_agent_send_handle, polling, lastAgentTask >>

\* The task t calls start_polling_impl, and ends.
TaskPoll(t) ==
    /\ tasks[t].pc = "poll"
    /\ polling' = TRUE
    /\ Step(t, [tasks[t] EXCEPT !.pc = "done"], "poll")
    /\ UNCHANGED << diffVars, pending, last_agent_send_handle,
                    pushed, lastAgentTask >>

\* The client, polling, gets a message of the remote user and calls the closure
\* with it.  The message may be the answer to an approval request the user has, or
\* not; the polling may go on after it, or not.
Deliver(text, replyTo, goesOn) ==
    /\ polling
    /\ replyTo # None => Sent(replyTo.v)
    /\ LET r == Callback(text, pending) IN
       /\ pending' = r.q
       /\ bobs' = [NoStep EXCEPT !.act = "callback", !.op = "start_polling_impl",
                                 !.text = text, !.replyTo = replyTo,
                                 !.before = pending, !.sent = r.sent,
                                 !.pushedBefore = pushed]
    /\ polling' = goesOn
    /\ UNCHANGED << diffVars, last_agent_send_handle, tasks, pushed,
                    lastAgentTask >>

\* What a message may be the answer to.
ReplyTargets == { None } \cup { Some(r) : r \in 1..MaxTasks }

\* The bridge of a session in a repository; the tracker is left alone.
InitBridge ==
    /\ NoTracker
    /\ gitUp = TRUE
    /\ isRepo = TRUE
    /\ commits = << 0 >>
    /\ birthAvail = TRUE

\* A session where approvals are asked for: the TUI calls the methods, the runtime
\* runs the tasks step by step in any order, and the client, once it polls, calls
\* the closure as the remote messages come.
NextApprovals ==
    \/ OnSessionStart
    \/ CancelPolling
    \/ SendExecApprovalRequest
    \/ SendPatchApprovalRequest
    \/ \E t \in 1..Len(tasks), ok \in BOOLEAN : TaskSend(t, ok)
    \/ \E t \in 1..Len(tasks) : TaskPush(t)
    \/ \E t \in 1..Len(tasks) : TaskPoll(t)
    \/ \E text \in RemoteTexts, replyTo \in ReplyTargets, goesOn \in BOOLEAN :
           Deliver(text, replyTo, goesOn)

SpecApprovals == InitBridge /\ [][NextApprovals]_vars

\* A session of turns of the agent: messages of the agent are sent, tasks of the
\* agent complete, the local user writes, interrupts and leaves.
NextTurns ==
    \/ \E request_after \in BOOLEAN : OnAgentMessage(request_after)
    \/ OnTaskComplete
    \/ SendNote
    \/ OnLocalUserMessage
    \/ OnUserInterrupt
    \/ OnSessionEnd
    \/ CancelPolling
    \/ \E t \in 1..Len(tasks), ok \in BOOLEAN : TaskSend(t, ok)
    \/ \E t \in 1..Len(tasks) : TaskAwait(t)
    \/ \E t \in 1..Len(tasks) : TaskRequest(t)
    \/ \E t \in 1..Len(tasks) : TaskPoll(t)

SpecTurns == InitBridge /\ [][NextTurns]_vars

-----------------------------------------------------------------------------
(* The claims. *)

IsCall == obs.op \in { "get_diff", "get_diff_if_changed" }
IsDedup == obs.op = "get_diff_if_changed"

\* The tracker was asked to track and its baseline capture failed.
BaselineFailed == constructed /\ atNew.requested /\ ~atNew.enabled

\* C1: a tracker whose baseline capture failed at construction (no repository, git
\* not launchable, a failing command, empty output as on an unborn branch) is
\* disabled and stays disabled whatever is called and whatever changes later:
\* every get_diff and get_diff_if_changed returns unavailable.
C1_DisabledForGood ==
    /\ (obs.op = "new" /\ atNew.requested /\ (~gitUp \/ ~isRepo \/ commits = << >>))
          => BaselineFailed
    /\ BaselineFailed => ~enabled /\ initial_git_hash = None
    /\ (BaselineFailed /\ IsCall) => obs.ret = None /\ obs.invoked = << >>

\* The baseline capture failed, the repository has since got commits and changes,
\* git runs, and get_diff was called.
C1_Witness ==
    /\ BaselineFailed
    /\ gitUp /\ isRepo /\ commits # << >> /\ workVer # commits[1]
    /\ files["n1"] # NoFile
    /\ obs.op = "get_diff" /\ obs.ret = None

\* C2: for an enabled tracker, a call of get_diff_if_changed that follows another
\* with no change of the working tree between them returns no text, however many
\* calls of get_diff came between; get_diff leaves last_diff_hash as it was.
C2_DigestStable ==
    /\ (IsDedup /\ enabled /\ obs.since.called /\ ~obs.since.changed) => obs.ret = None
    /\ obs.op = "get_diff" => last_diff_hash = obs.hashBefore

\* A second get_diff_if_changed, with a call of get_diff and no change since the
\* first, on a working tree with a changed tracked file and a new file.
C2_Witness ==
    /\ IsDedup /\ enabled
    /\ obs.since.called /\ ~obs.since.changed /\ obs.since.polled
    /\ obs.ret = None
    /\ lastReturned # None /\ lastReturned.v # << >>
    /\ files["n1"] # NoFile /\ files["n1"].created >= session_start_time

\* The content of the tracked file in the baseline commit.
BaselineContent == commits[Resolve(initial_git_hash.v)]

\* The working tree has no change since the baseline: the tracked file is as
\* committed there, and no untracked file was made or written in the session.
Clean ==
    /\ workVer = BaselineContent
    /\ \A f \in FileNames :
          files[f] # NoFile =>
             files[f].created < session_start_time /\ files[f].modified < session_start_time

C3_WitnessFirst ==
    /\ IsDedup /\ enabled /\ Clean /\ ~obs.since.called /\ obs.ret = Some(<< >>)

\* The trimmed combined diff of the working tree as it is.
CurrentTrimmed == Trim(get_diff.ret.v)

Contains(text, atom) == \E i \in 1..Len(text) : text[i] = atom

\* The line of the tracked file's diff that gives its content in the working tree.
TrackedPlusLine == "+" \o ToString(workVer)

C8_BaselineKept ==
    /\ ~constructed => initial_git_hash = None
    /\ constructed => initial_git_hash = atNew.initial_git_hash
    /\ (IsCall /\ enabled) =>
          /\ obs.invoked[2][1] = A("diff")
          /\ obs.invoked[2][2] = atNew.initial_git_hash.v
    /\ (obs.op = "get_diff" /\ enabled) =>
          (Contains(obs.ret.v, "diff --git a/t b/t")
             <=> workVer # commits[Resolve(atNew.initial_git_hash.v)])

\* HEAD has moved to a commit with another content of the tracked file, the
\* working tree is as that commit has it, and get_diff shows the change.
C8_Witness ==
    /\ obs.op = "get_diff" /\ enabled
    /\ HeadCommit > Resolve(atNew.initial_git_hash.v)
    /\ commits[HeadCommit] # commits[Resolve(atNew.initial_git_hash.v)]
    /\ workVer = commits[HeadCommit]
    /\ Contains(obs.ret.v, "diff --git a/t b/t")

\* C9: last_diff_hash is None as long as get_diff_if_changed returned no text, and
\* otherwise the digest of the text it returned last; a call that returns no text
\* (unchanged, unavailable) leaves it as it was.
C9_DigestOfLastReturned ==
    /\ last_diff_hash = None <=> lastReturned = None
    /\ lastReturned # None => last_diff_hash = Some(Sha1Hex(lastReturned.v))
    /\ (IsDedup /\ obs.ret = None) => last_diff_hash = obs.hashBefore

\* A call that found the diff unchanged, after the working tree had changed and
\* changed back, the digest being the one of a text with a new file's block.
C9_Witness ==
    /\ IsDedup /\ enabled /\ obs.ret = None /\ obs.since.changed
    /\ last_diff_hash # None /\ Contains(lastReturned.v, "n1")

\* The call found the diff unchanged since the last fetch.
Unchanged == IsDedup /\ enabled /\ last_diff_hash = obs.hashBefore /\ obs.hashBefore # None

\* C10, as claimed: what get_diff_if_changed gives for an unchanged diff is not
\* what it gives for a disabled tracker.
C10_AsClaimed == Unchanged => obs.ret # Unavailable

\* C10, amended: get_diff_if_changed has two results.  It gives None for a
\* disabled tracker and for an unchanged diff alike, and Some(text) only for an
\* enabled tracker and a text whose digest is new; get_diff tells a disabled
\* tracker (None) from an enabled one.
C10_TwoResults ==
    /\ (IsDedup /\ ~enabled) => obs.ret = Unavailable
    /\ Unchanged => obs.ret = Unavailable
    /\ (IsDedup /\ obs.ret # None) =>
          /\ enabled
          /\ last_diff_hash = Some(Sha1Hex(obs.ret.v))
          /\ last_diff_hash # obs.hashBefore
    /\ obs.op = "get_diff" => (obs.ret = Unavailable <=> ~enabled)

\* An enabled tracker, an unchanged non-empty diff: the caller gets None.
C10_Witness == Unchanged /\ obs.ret = None /\ lastReturned.v # << >> /\ ~obs.since.polled

\* A new-file block for the path f starts at position i of a text.
BlockStartsAt(text, f, i) ==
    i + 1 <= Len(text) /\ text[i] = "diff --git a/" /\ text[i + 1] = f

HasBlock(text, f) == \E i \in 1..Len(text) : BlockStartsAt(text, f, i)

\* The file f was there, untracked, when the tracker was constructed.
Preexisting(f) ==
    constructed /\ files[f] # NoFile /\ files[f].created < session_start_time

\* C5: an untracked file that was there when the tracker was constructed has no
\* new-file block in what get_diff or get_diff_if_changed returns, ever.
C5_PreexistingExcluded ==
    \A f \in FileNames :
        (Preexisting(f) /\ IsCall /\ obs.ret # None) => ~HasBlock(obs.ret.v, f)

\* What holds of the code: a file whose timestamp, as the platform gives it, is
\* before the session has no block.
C5_EarlierTimestampExcluded ==
    \A f \in FileNames :
        (constructed /\ files[f] # NoFile /\ files[f].kind # "nostat"
           /\ (IF birthAvail THEN files[f].created ELSE files[f].modified)
                 < session_start_time
           /\ IsCall /\ obs.ret # None) => ~HasBlock(obs.ret.v, f)

\* Where the first block for f starts in a text, and where the block ends.
BlockStart(text, f) == CHOOSE i \in 1..Len(text) : BlockStartsAt(text, f, i)

RECURSIVE NextBlock(_, _)
NextBlock(text, i) ==
    IF i > Len(text) THEN Len(text) + 1
    ELSE IF text[i] = "diff --git a/" THEN i
    ELSE NextBlock(text, i + 1)

\* The lines of a text, cut at each "\n" and nowhere else.
RECURSIVE SplitNL(_)
SplitNL(s) ==
    IF s = << >> THEN << >>
    ELSE LET k == FirstNL(s, 1) IN
         IF k = 0 THEN << s >>
         ELSE << SubSeq(s, 1, k - 1) >> \o SplitNL(SubSeq(s, k + 1, Len(s)))

IsPlusLine(line) == line # << >> /\ Head(line) = "+"

\* The number of lines of a file: its newlines, and one more for an unended last line.
LineCount(content) ==
    CountNL(content) + (IF content # << >> /\ ~EndsWithNewline(content) THEN 1 ELSE 0)

\* The block of f in a text has the hunk header for n lines, and then exactly the
\* lines src, each after a "+".
WellFormedBlock(text, f, n, src) ==
    LET i == BlockStart(text, f)
        body == SplitNL(SubSeq(text, i + 18, NextBlock(text, i + 1) - 1))
    IN /\ SubSeq(text, i + 11, i + 17)
            = << "+++ b/", f, NL, "@@ -0,0 +1,", ToString(n), " @@", NL >>
       /\ Len(src) = n
       /\ Len(body) >= n
       /\ \A k \in 1..n : body[k] = << "+" >> \o src[k]
       /\ Len(SelectSeq(body, IsPlusLine)) = n

\* C6: every untracked text file made after the tracker was constructed has a
\* new-file block in what get_diff returns, with the hunk header
\* `@@ -0,0 +1,N @@` for its number of lines N and then exactly N lines with "+",
\* one for each line of the file, in order; so for every content, the empty one too.
C6_NewFileIncluded ==
    \A f \in FileNames :
        (obs.op = "get_diff" /\ enabled /\ files[f] # NoFile /\ files[f].kind = "text"
           /\ files[f].created >= session_start_time) =>
            /\ HasBlock(obs.ret.v, f)
            /\ WellFormedBlock(obs.ret.v, f, LineCount(files[f].content),
                               Lines(files[f].content))

\* get_diff with two new files, the first of two lines, the last without newline.
C6_Witness ==
    /\ obs.op = "get_diff" /\ enabled
    /\ files["n1"] # NoFile /\ files["n1"].created >= session_start_time
    /\ files["n1"].content = << "a", NL, "a" >>
    /\ files["n2"] # NoFile /\ files["n2"].created >= session_start_time
    /\ HasBlock(obs.ret.v, "n1") /\ HasBlock(obs.ret.v, "n2")

\* The same with the empty file.
C6_WitnessEmpty ==
    /\ obs.op = "get_diff" /\ enabled
    /\ files["n1"] # NoFile /\ files["n1"].created > session_start_time
    /\ files["n1"].content = << >>
    /\ HasBlock(obs.ret.v, "n1")

\* The pathspecs of the k-th git invocation of the last call.
PatternsOf(k) == AfterDashDash(obs.invoked[k])

\* C7: nothing under a linked worktree of the repository is in the combined diff,
\* neither in the output of `git diff` nor as a new-file block, and one call of
\* get_diff gives `git diff` and `git ls-files` the same exclusion patterns, which
\* cover the linked worktree inside the tracker's directory.
C7_WorktreeIsolated ==
    (obs.op = "get_diff" /\ enabled) =>
        /\ ~Contains(obs.ret.v, "w")
        /\ PatternsOf(2) = PatternsOf(3)
        /\ worktrees[WtInside] # Absent => Excluded(obs.invoked[3], << "w", "x" >>)

\* get_diff in a session during which a worktree was added inside the directory,
\* with another one beside it, a new file and an edit of the tracked file.
C7_Witness ==
    /\ obs.op = "get_diff" /\ enabled
    /\ worktrees[WtInside] # Absent /\ worktrees[WtInside] >= session_start_time
    /\ worktrees[WtOutside] # Absent
    /\ HasBlock(obs.ret.v, "n1")
    /\ Contains(obs.ret.v, "diff --git a/t b/t")

\* C11: get_diff_if_changed returns a text only if the text is not empty and is
\* not the text it returned last; the empty string is never returned as text.
C11_NeverEmptyText ==
    (IsDedup /\ obs.ret # None) =>
        /\ obs.ret.v # << >>
        /\ obs.prev # None => obs.ret.v # obs.prev.v

\* What holds of the code: the text returned is not the one returned last, and it
\* is empty only when the combined diff is.
C11_NewTextOnly ==
    (IsDedup /\ obs.ret # None) =>
        /\ obs.prev # None => obs.ret.v # obs.prev.v
        /\ obs.ret.v = CurrentTrimmed

\* The git command c fails now: it cannot be launched, or exits with an error.
Failing(c) == ~gitUp \/ ~isRepo \/ fault[c] # "none"

\* The output of `git diff` is not UTF-8.
Unreadable == Contains(TrackedDiff(BaselineContent, workVer), BadByte)

\* What get_diff returns when each failing invocation counts as one with empty
\* output, unreadable output being a failure or not.
ResultWithEmptyFor(failedWorktree, failedDiff, failedLs) ==
    LET patterns == IF failedWorktree \/ worktrees[WtInside] = Absent THEN << >>
                    ELSE << << ":(exclude)", "w" >> >>
        diffOut == IF failedDiff THEN << >>
                   ELSE Utf8Lossy(TrackedDiff(BaselineContent, workVer))
        listed == IF failedLs THEN << >>
                  ELSE SelectSeq(Lines(UntrackedListing(LsFilesArgs(patterns), 0)), NonBlank)
    IN Some(Combine(Ok(diffOut), NewFileBlocks(listed)))

\* C12, as claimed: when the baseline capture succeeded, get_diff returns a text
\* and leaves the tracker enabled whatever git invocation fails, the text being
\* the one that empty output of each failing invocation gives: failing to launch,
\* a non-zero exit status, and output that cannot be read as UTF-8.
C12_AsClaimed ==
    (obs.op = "get_diff" /\ atNew.enabled) =>
        /\ enabled
        /\ obs.ret = ResultWithEmptyFor(Failing("worktree"),
                                        Failing("diff") \/ Unreadable,
                                        Failing("ls-files"))

\* C12, amended: the same for failing to launch and a non-zero exit status; output
\* that is not UTF-8 is no failure, and is returned with U+FFFD for each bad byte.
C12_FailureIsEmptyOutput ==
    (obs.op = "get_diff" /\ atNew.enabled) =>
        /\ enabled
        /\ Len(obs.invoked) = 3
        /\ obs.ret = ResultWithEmptyFor(Failing("worktree"), Failing("diff"),
                                        Failing("ls-files"))
        /\ Unreadable /\ ~Failing("diff") => Contains(obs.ret.v, Replacement)

\* `git diff` exits with an error while the tracked file is edited and a new file
\* is there: get_diff returns the new file's block alone.
C12_Witness ==
    /\ obs.op = "get_diff" /\ atNew.enabled /\ enabled
    /\ gitUp /\ fault["diff"] = "exit"
    /\ workVer # BaselineContent
    /\ HasBlock(obs.ret.v, "n1")
    /\ ~Contains(obs.ret.v, "diff --git a/t b/t")

\* git cannot be launched at all: the empty text.
C12_WitnessLaunch ==
    /\ obs.op = "get_diff" /\ atNew.enabled /\ enabled
    /\ ~gitUp /\ workVer # BaselineContent /\ files["n1"] # NoFile
    /\ obs.ret = Some(<< >>)

\* The diff is not UTF-8: it is returned.
C12_WitnessLossy ==
    /\ obs.op = "get_diff" /\ atNew.enabled /\ enabled
    /\ Unreadable /\ ~Failing("diff")
    /\ Contains(obs.ret.v, Replacement)

\* C13: a disabled tracker, constructed so or disabled by a failed baseline
\* capture, invokes git in no call of get_diff or get_diff_if_changed; a tracker
\* constructed with enabled = false invokes it at construction neither.
C13_DisabledIsSilent ==
    /\ (constructed /\ ~enabled /\ IsCall) => obs.invoked = << >>
    /\ (obs.op = "new" /\ ~atNew.requested) => obs.invoked = << >> /\ ~enabled
    /\ (obs.op = "new" /\ atNew.requested) => obs.invoked = << RevParseArgs >>

\* A tracker constructed with enabled = false in a repository where git runs and
\* there is something to show: get_diff_if_changed runs nothing.
C13_Witness ==
    /\ constructed /\ ~atNew.requested /\ ~enabled
    /\ gitUp /\ isRepo /\ commits # << >> /\ workVer # commits[HeadCommit]
    /\ files["n1"] # NoFile /\ files["n1"].created >= session_start_time
    /\ IsDedup /\ obs.invoked = << >>

\* The file f is one get_untracked_files makes a block for: it was made in the session.
Qualifying(f) == files[f] # NoFile /\ files[f].created >= session_start_time

\* The block of f in a text is the placeholder block, whole.
PlaceholderBlock(text, f) ==
    LET i == BlockStart(text, f) IN
    /\ SubSeq(text, i, i + 10)
         = << "diff --git a/", f, " b/", f, NL, "new file mode 100644", NL,
              "index 0000000..0000000", NL, "--- /dev/null", NL >>
    /\ SubSeq(text, i + 11, i + 20)
         = << "+++ b/", f, NL, "@@ -0,0 +1,", "1", " @@", NL, Placeholder, NL, NL >>
    /\ NextBlock(text, i + 1) = i + 21

\* C14: a file that cannot be read gets the placeholder hunk, `@@ -0,0 +1,1 @@`
\* and `+[Binary or unreadable file]`, and nothing else changes: every other new
\* file of the same get_diff has its full block, the blocks in the order of the listing.
C14_PlaceholderPerFile ==
    (obs.op = "get_diff" /\ enabled) =>
        /\ \A f \in FileNames :
              (Qualifying(f) /\ files[f].kind = "binary") =>
                  HasBlock(obs.ret.v, f) /\ PlaceholderBlock(obs.ret.v, f)
        /\ \A f \in FileNames :
              (Qualifying(f) /\ files[f].kind = "text") =>
                  /\ HasBlock(obs.ret.v, f)
                  /\ WellFormedBlock(obs.ret.v, f, Len(Lines(files[f].content)),
                                     Lines(files[f].content))
        /\ (Qualifying("n1") /\ Qualifying("n2")) =>
              BlockStart(obs.ret.v, "n1") < BlockStart(obs.ret.v, "n2")

\* The first listed file cannot be read, the second is a text of one line.
C14_Witness ==
    /\ obs.op = "get_diff" /\ enabled
    /\ Qualifying("n1") /\ files["n1"].kind = "binary"
    /\ Qualifying("n2") /\ files["n2"].kind = "text" /\ files["n2"].content = << "a", NL >>
    /\ Contains(obs.ret.v, Placeholder) /\ Contains(obs.ret.v, "+")

\* The other way round.
C14_WitnessLast ==
    /\ obs.op = "get_diff" /\ enabled
    /\ Qualifying("n1") /\ files["n1"].kind = "text" /\ files["n1"].content # << >>
    /\ Qualifying("n2") /\ files["n2"].kind = "binary"
    /\ Contains(obs.ret.v, Placeholder) /\ Contains(obs.ret.v, "+")

\* The lines of the block of f in a text, after its hunk header.
BlockBody(text, f) ==
    LET i == BlockStart(text, f) IN
    SplitNL(SubSeq(text, i + 18, NextBlock(text, i + 1) - 1))

\* C15: the block of a new file whose last line has no newline at its end has the
\* line `\ No newline at end of file`, directly after the last "+" line of the
\* block; the block of a file whose content ends with a newline has no such line.
C15_NoNewlineMarker ==
    \A f \in FileNames :
        (obs.op = "get_diff" /\ enabled /\ Qualifying(f) /\ files[f].kind = "text") =>
            LET body == BlockBody(obs.ret.v, f)
                n == Len(Lines(files[f].content))
            IN /\ (files[f].content # << >> /\ ~EndsWithNewline(files[f].content)) =>
                     /\ Len(body) > n
                     /\ IsPlusLine(body[n])
                     /\ body[n + 1] = << NoNewlineMarker >>
                     /\ \A k \in 1..Len(body) : body[k] = << NoNewlineMarker >> => k = n + 1
               /\ EndsWithNewline(files[f].content) =>
                     \A k \in 1..Len(body) : body[k] # << NoNewlineMarker >>

\* What the code does with the empty file, which has no last line: the marker is
\* there, directly after the hunk header.
C15_EmptyFileMarked ==
    \A f \in FileNames :
        (obs.op = "get_diff" /\ enabled /\ Qualifying(f) /\ files[f].kind = "text"
           /\ files[f].content = << >>) =>
            BlockBody(obs.ret.v, f)[1] = << NoNewlineMarker >>

\* Two new files in one get_diff: one of two lines, the last without its newline and
\* with the marker; one that ends with a newline, without.
C15_Witness ==
    /\ obs.op = "get_diff" /\ enabled
    /\ Qualifying("n1") /\ files["n1"].kind = "text"
    /\ files["n1"].content = << "a", NL, "a" >>
    /\ Qualifying("n2") /\ files["n2"].kind = "text" /\ files["n2"].content = << "a", NL >>
    /\ BlockBody(obs.ret.v, "n1")[3] = << NoNewlineMarker >>
    /\ ~Contains(SubSeq(obs.ret.v, BlockStart(obs.ret.v, "n2"), Len(obs.ret.v)),
                 NoNewlineMarker)

\* The two segments of the combined diff of the working tree as it is: what
\* `git diff` against the baseline shows, trimmed, and the blocks of the new files.
DiffSegment == Trim(TrackedDiff(BaselineContent, workVer))
UntrackedSegment ==
    NewFileBlocks(SelectSeq(Lines(UntrackedListing(LsFilesArgs(<< >>), 0)), NonBlank))

\* C16: get_diff returns the diff segment, then the untracked segment, with one
\* newline between them when neither is empty; one segment alone, with nothing
\* added, when the other is empty; and the empty string, not None, when both are.
C16_SegmentsInOrder ==
    (obs.op = "get_diff" /\ enabled) =>
        /\ (DiffSegment # << >> /\ UntrackedSegment # << >>) =>
              obs.ret = Some(DiffSegment \o << NL >> \o UntrackedSegment)
        /\ (DiffSegment # << >> /\ UntrackedSegment = << >>) => obs.ret = Some(DiffSegment)
        /\ (DiffSegment = << >> /\ UntrackedSegment # << >>) => obs.ret = Some(UntrackedSegment)
        /\ (DiffSegment = << >> /\ UntrackedSegment = << >>) => obs.ret = Some(<< >>)

\* Both segments are there: the tracked file's diff, a newline, the new file's block.
C16_Witness ==
    /\ obs.op = "get_diff" /\ enabled
    /\ DiffSegment # << >> /\ UntrackedSegment # << >>
    /\ Len(obs.ret.v) = Len(DiffSegment) + 1 + Len(UntrackedSegment)
    /\ obs.ret.v[Len(DiffSegment) + 1] = NL
    /\ obs.ret.v[Len(DiffSegment) + 2] = "diff --git a/"

\* The untracked segment alone.
C16_WitnessUntrackedOnly ==
    /\ obs.op = "get_diff" /\ enabled
    /\ DiffSegment = << >> /\ UntrackedSegment # << >>
    /\ obs.ret.v[1] = "diff --git a/"

\* C17, as claimed: both segments are trimmed before they are combined, so that
\* the text get_diff returns has no whitespace and no blank line of theirs at
\* its start or its end.
C17_AsClaimed ==
    (obs.op = "get_diff" /\ enabled) =>
        /\ obs.ret.v = Combine(Ok(DiffSegment), Trim(UntrackedSegment))
        /\ obs.ret.v = Trim(obs.ret.v)

\* C17, amended: the output of `git diff` is trimmed; the text of the untracked
\* files is appended as it was made, each block ending with a newline and an empty
\* line, so that a text with such a block ends with two newlines.
C17_DiffSegmentTrimmed ==
    (obs.op = "get_diff" /\ enabled) =>
        /\ obs.ret.v = TrimStart(obs.ret.v)
        /\ UntrackedSegment = << >> => obs.ret.v = Trim(obs.ret.v)
        /\ UntrackedSegment # << >> =>
              /\ SubSeq(obs.ret.v, Len(obs.ret.v) - 1, Len(obs.ret.v)) = << NL, NL >>
              /\ DiffSegment # << >> =>
                    /\ ~IsWhitespace(obs.ret.v[Len(DiffSegment)])
                    /\ obs.ret.v[Len(DiffSegment) + 1] = NL
                    /\ ~IsWhitespace(obs.ret.v[Len(DiffSegment) + 2])

\* get_diff with an edit of the tracked file and a new file: the text ends with
\* the empty line after the new file's block.
C17_Witness ==
    /\ obs.op = "get_diff" /\ enabled
    /\ DiffSegment # << >> /\ HasBlock(obs.ret.v, "n1")
    /\ obs.ret.v # Trim(obs.ret.v)

\* get_diff with an edit of the tracked file alone: the trimmed output of git.
C17_WitnessDiffOnly ==
    /\ obs.op = "get_diff" /\ enabled
    /\ UntrackedSegment = << >> /\ obs.ret.v # << >>
    /\ obs.ret.v = Trim(obs.ret.v)

\* The paths `git worktree list` gives: the tracker's directory, which is the main
\* worktree, and the linked worktrees there are.
ListedWorktrees == { Cwd } \cup { p \in LinkedPaths : worktrees[p] # Absent }

\* The pattern that excludes the worktree p: its path from the tracker's directory.
PatternFor(p) == << ":(exclude)" >> \o JoinComponents(SubSeq(p, Len(Cwd) + 1, Len(p)))

\* The exclusion list of the last call: the pathspecs it gave `git diff`.
ExclusionList == PatternsOf(2)

\* C18: the exclusion list of a diff request has exactly one pattern,
\* `:(exclude)<path from the tracker's directory>`, for each listed worktree that
\* is below the tracker's directory and is not that directory, and nothing else:
\* no pattern for the tracker's directory, none for a worktree outside it.
C18_ExclusionList ==
    (IsCall /\ enabled) =>
        /\ \A p \in ListedWorktrees :
              (p # Cwd /\ IsPrefix(Cwd, p)) =>
                  Cardinality({ i \in 1..Len(ExclusionList) : ExclusionList[i] = PatternFor(p) }) = 1
        /\ \A i \in 1..Len(ExclusionList) :
              \E p \in ListedWorktrees :
                  p # Cwd /\ IsPrefix(Cwd, p) /\ ExclusionList[i] = PatternFor(p)

\* All three linked worktrees are there: two patterns, "w" and "d/v".
C18_Witness ==
    /\ obs.op = "get_diff" /\ enabled
    /\ \A p \in LinkedPaths : worktrees[p] # Absent
    /\ Len(ExclusionList) = 2
    /\ \E i \in 1..2 : ExclusionList[i] = << ":(exclude)", "d", "/", "v" >>
    /\ \E i \in 1..2 : ExclusionList[i] = << ":(exclude)", "w" >>

\* The timestamp the platform gives for the file f: the creation time, or the
\* modification time where there is no creation time.
Timestamp(f) == IF birthAvail THEN files[f].created ELSE files[f].modified

C19_WitnessNoTimestamp ==
    /\ obs.op = "get_diff" /\ enabled
    /\ files["n1"] # NoFile /\ files["n1"].kind = "nostat"
    /\ files["n1"].created > session_start_time
    /\ obs.ret = Some(<< >>)

\* No creation time: an old file written in the session has a block, by its
\* modification time, and an old file not written since has none.
C19_WitnessModified ==
    /\ obs.op = "get_diff" /\ enabled /\ ~birthAvail
    /\ files["n1"] # NoFile /\ files["n1"].kind = "text"
    /\ files["n1"].created < session_start_time
    /\ files["n1"].modified > session_start_time
    /\ HasBlock(obs.ret.v, "n1")

\* C20: after construction an enabled tracker has its baseline revision; so every
\* `git diff` it runs names the commit captured at construction, never HEAD.
C20_EnabledHasBaseline ==
    /\ (constructed /\ enabled) =>
          /\ initial_git_hash # None
          /\ Resolve(initial_git_hash.v) \in 1..Len(commits)
    /\ (IsCall /\ enabled) =>
          /\ obs.invoked[2][1] = A("diff")
          /\ obs.invoked[2][2] = initial_git_hash.v
          /\ obs.invoked[2][2] # A("HEAD")

\* HEAD is a commit later than the baseline: `git diff` is given the baseline.
C20_Witness ==
    /\ obs.op = "get_diff" /\ enabled
    /\ HeadCommit > Resolve(initial_git_hash.v)
    /\ obs.invoked[2] = << A("diff"), << HashAtom(1) >> >>

(* ---- the bridge ---- *)

\* What the text of an answer decides, by the table of the approval prompt.
DecisionOf(text) ==
    LET normalized == ToLowercase(Trim(text)) IN
    IF normalized = << "yes" >> THEN "Approved"
    ELSE IF normalized = << "always" >> THEN "ApprovedForSession"
    ELSE "Abort"

\* C21: when the closure is called with a remote message while the queue of
\* pending approvals is not empty, the oldest entry and no other is removed, and
\* one event is sent and no more: ResolveApproval, with the decision Approved for
\* "yes", ApprovedForSession for "always", Abort for "no", "no, provide feedback"
\* and any other text, compared trimmed and in lower case; nothing goes to the
\* agent as user input.
C21_OldestResolved ==
    (bobs.act = "callback" /\ bobs.before # << >>) =>
        /\ pending = Tail(bobs.before)
        /\ Len(bobs.sent) = 1
        /\ bobs.sent[1].ev = "ResolveApproval"
        /\ bobs.sent[1].chan = "app_event_tx"
        /\ bobs.sent[1].arg = DecisionOf(bobs.text)
        /\ \A i \in 1..Len(bobs.sent) : bobs.sent[i].chan # "codex_op_tx"

C21_Witness ==
    /\ bobs.act = "callback"
    /\ Len(bobs.before) = 2
    /\ bobs.before[1] # bobs.before[2]
    /\ pending = << bobs.before[2] >>
    /\ bobs.text = << " ", "Yes", NL >>
    /\ bobs.sent = << ResolveApproval("Approved") >>

\* C22: when the closure is called with a remote message while the queue of
\* pending approvals is empty, it sends no ResolveApproval, whatever the text, the
\* queue stays empty, and the message is shown and then given to the agent: the
\* closure sends InsertHistoryCell, then Op::UserInput, then Op::AddToHistory, each
\* with the text as it came.
C22_PlainInputForwarded ==
    (bobs.act = "callback" /\ bobs.before = << >>) =>
        /\ pending = << >>
        /\ \A i \in 1..Len(bobs.sent) : bobs.sent[i].ev # "ResolveApproval"
        /\ bobs.sent =
               << [chan |-> "app_event_tx", ev |-> "InsertHistoryCell", arg |-> bobs.text],
                  [chan |-> "codex_op_tx", ev |-> "UserInput", arg |-> bobs.text],
                  [chan |-> "codex_op_tx", ev |-> "AddToHistory", arg |-> bobs.text] >>

C22_Witness ==
    /\ bobs.act = "callback"
    /\ bobs.before = << >>
    /\ bobs.text = << "yes" >>
    /\ Len(bobs.sent) = 3
    /\ bobs.sent[2] = UserInput(<< "yes" >>)

\* C23: a task of on_task_complete asks for the user's input only when the most
\* recent task of on_agent_message there was at the call, if there was one, has
\* ended.
C23_RequestAfterLastSend ==
    (bobs.act = "request" /\ bobs.op = "on_task_complete") => ~bobs.sendOutstanding

\* The entries of the request r in the queue.
EntriesOf(r) == { i \in 1..Len(pending) : pending[i][1] = r }

\* C24: an approval request puts one entry (request id, kind) at the back of the
\* queue if and only if its message was sent, and before it starts polling; when
\* the send fails the task ends at once, with the queue as it was and without
\* starting to poll.
C24_EntryIffSent ==
    /\ \A t \in 1..Len(tasks) :
           tasks[t].op \in ApprovalOps =>
               LET r == tasks[t].request_id.v IN
               /\ r \in pushed <=> (tasks[t].sent = "ok" /\ tasks[t].pc \in { "poll", "done" })
               /\ tasks[t].sent = "err" => (tasks[t].pc = "done" /\ EntriesOf(r) = {})
               /\ tasks[t].pc \in { "send", "push" } => EntriesOf(r) = {}
               /\ Cardinality(EntriesOf(r)) <= 1
    /\ bobs.act = "push" =>
           /\ bobs.request_id.v \notin bobs.pushedBefore
           /\ pending = Append(bobs.before,
                               << bobs.request_id.v,
                                  IF bobs.op = "send_exec_approval_request"
                                  THEN "Exec" ELSE "Patch" >>)
    /\ (bobs.act = "poll" /\ bobs.op \in ApprovalOps) =>
           /\ bobs.request_id.v \in pushed
           /\ tasks[bobs.request_id.v].sent = "ok"

C24_Witness ==
    /\ Len(tasks) = 2
    /\ tasks[1].op = "send_exec_approval_request"
    /\ tasks[1].sent = "err"
    /\ tasks[1].pc = "done"
    /\ bobs.act = "push"
    /\ bobs.op = "send_patch_approval_request"
    /\ pending = << << 2, "Patch" >> >>
    /\ ~polling

\* C25: when the closure is called with the answer to an approval request, the
\* entry of the request was put in the queue before, and the answer resolves an
\* approval: it is not passed on as what the user wrote.
C25_EntryBeforeReply ==
    (bobs.act = "callback" /\ bobs.replyTo # None) =>
        /\ bobs.replyTo.v \in bobs.pushedBefore
        /\ bobs.sent[1].ev = "ResolveApproval"

====
